---- MODULE Spec2Model ----
(***************************************************************************)
(* Model of one media-stream session of src/outbound.js: the handler of   *)
(* the "/outbound-media-stream" WebSocket route (lines 158-403).  One     *)
(* session is the closure created for one telephony connection `ws`; its  *)
(* state is the closure's variables, the agent connections it has created *)
(* (each `new WebSocket(signedUrl)`), the runs of setupElevenLabs waiting *)
(* for getSignedUrl, and the pending setTimeout callbacks.  Every event   *)
(* handler runs to completion, so each handler is one action.             *)
(*                                                                         *)
(* Sockets follow the `ws` package: readyState is CONNECTING, OPEN,       *)
(* CLOSING or CLOSED; send() throws while CONNECTING, transmits while     *)
(* OPEN and is dropped otherwise; close() moves an OPEN socket to CLOSING.*)
(* What a handler sends is its output: wsSent is the sequence of frames   *)
(* the latest handler handed to the telephony socket's send(), agentSent  *)
(* the messages it transmitted to the agent, each with its connection.    *)
(***************************************************************************)
EXTENDS Integers, Sequences, FiniteSets, TLC

(***************************** bounds **************************************)
MaxConns == 3        \* agent connections created in one session

(***************************** constants ***********************************)
NORMAL_CLOSURE == 1000
ABNORMAL_CLOSURE == 1006

\* JS null / undefined (the code only tests truthiness), and the empty string
Null == "null"
Empty == ""
Truthy(v) == v # Null /\ v # Empty

\* a || b || ... of JavaScript on strings
Or2(a, b) == IF Truthy(a) THEN a ELSE b
Or3(a, b, c) == Or2(a, Or2(b, c))

(************************* customParameters ********************************)
\* defined = FALSE models customParameters being null / undefined
NoParams ==
  [defined |-> FALSE, client_id |-> Null, phone_number |-> Null,
   name |-> Null, organization |-> Null, credit_amount |-> Null]

ParamsAna ==
  [defined |-> TRUE, client_id |-> Null, phone_number |-> Null,
   name |-> "Ana", organization |-> Null, credit_amount |-> Null]

ParamsFull ==
  [defined |-> TRUE, client_id |-> "C7", phone_number |-> "+5255",
   name |-> "Luis", organization |-> "Acme", credit_amount |-> "900"]

ParamSets == {NoParams, ParamsAna, ParamsFull}

\* customParameters?.f
Opt(cp, f) == IF cp.defined THEN cp[f] ELSE Null

\* lines 182-191: the initial configuration built by the open handler
InitialConfig(cp, cs) ==
  [type |-> "conversation_initiation_client_data",
   dynamic_variables |->
     [client_id |-> Or3(Opt(cp, "client_id"), cs, "unknown_call"),
      phone_number |-> Or2(Opt(cp, "phone_number"), "unknown_number"),
      name |-> Or2(Opt(cp, "name"), "Cliente"),
      organization |-> Or2(Opt(cp, "organization"), "Datágora"),
      credit_amount |-> Or2(Opt(cp, "credit_amount"), "50000")]]

(***************************** base64 **************************************)
\* A base64 string is a sequence of characters: 0..63 are the characters of
\* the alphabet (by value), PAD is "=", JUNK a character outside it ("\n").
PAD == 64
JUNK == 65

RECURSIVE UpToPad(_)
UpToPad(s) ==
  IF s = <<>> \/ Head(s) = PAD THEN <<>> ELSE <<Head(s)>> \o UpToPad(Tail(s))

\* the sextets Buffer.from(s, "base64") decodes: illegal characters are
\* skipped and decoding stops at the first "="
Sextets(s) == SelectSeq(UpToPad(s), LAMBDA ch : ch < 64)

RECURSIVE DecodeSextets(_)
DecodeSextets(q) ==
  IF Len(q) < 2 THEN <<>>
  ELSE IF Len(q) = 2 THEN << q[1] * 4 + q[2] \div 16 >>
  ELSE IF Len(q) = 3
    THEN << q[1] * 4 + q[2] \div 16, (q[2] % 16) * 16 + q[3] \div 4 >>
  ELSE << q[1] * 4 + q[2] \div 16, (q[2] % 16) * 16 + q[3] \div 4,
          (q[3] % 4) * 64 + q[4] >> \o DecodeSextets(SubSeq(q, 5, Len(q)))

\* Buffer.from(s, "base64")
Base64Decode(s) == DecodeSextets(Sextets(s))

\* buf.toString("base64")
RECURSIVE Base64Encode(_)
Base64Encode(b) ==
  IF b = <<>> THEN <<>>
  ELSE IF Len(b) = 1 THEN << b[1] \div 4, (b[1] % 4) * 16, PAD, PAD >>
  ELSE IF Len(b) = 2
    THEN << b[1] \div 4, (b[1] % 4) * 16 + b[2] \div 16, (b[2] % 16) * 4, PAD >>
  ELSE << b[1] \div 4, (b[1] % 4) * 16 + b[2] \div 16,
          (b[2] % 16) * 4 + b[3] \div 64, b[3] % 64 >>
       \o Base64Encode(SubSeq(b, 4, Len(b)))

\* the message wrapping the payload string as received, with no round trip
AudioMessageRaw(payload) == [user_audio_chunk |-> payload]

\* lines 362-367: the message wrapping one telephony media payload
AudioMessage(payload) ==
  [user_audio_chunk |-> Base64Encode(Base64Decode(payload))]

(***************************** inputs **************************************)
StreamSids == {"ST1", "ST2"}
CallSids == {"CA1"}

\* payloads of telephony media frames: "QUJD", "QUI=", "QUI" (unpadded),
\* "QUJD\n"
MediaPayloads ==
  { <<16, 20, 9, 3>>, <<16, 20, 8, PAD>>, <<16, 20, 8>>, <<16, 20, 9, 3, JUNK>> }

\* Frames arriving on the telephony socket.  parses = FALSE is a frame
\* JSON.parse rejects; hasStart / hasMedia = FALSE is a frame without its
\* start / media object.
TelGarbage == [parses |-> FALSE, event |-> Null]
TelStop == [parses |-> TRUE, event |-> "stop"]
TelConnected == [parses |-> TRUE, event |-> "connected"]

StartFrame(s, c, p) ==
  [parses |-> TRUE, event |-> "start", hasStart |-> TRUE,
   streamSid |-> s, callSid |-> c, customParameters |-> p]

TelStartFrames ==
  { StartFrame("ST1", "CA1", ParamsAna),
    StartFrame("ST2", "CA1", ParamsFull),
    StartFrame(Null, "CA1", ParamsAna),
    [parses |-> TRUE, event |-> "start", hasStart |-> FALSE,
     streamSid |-> Null, callSid |-> Null, customParameters |-> NoParams] }

TelMediaFrames ==
  { [parses |-> TRUE, event |-> "media", hasMedia |-> TRUE, payload |-> p] :
       p \in MediaPayloads }
  \cup
  { [parses |-> TRUE, event |-> "media", hasMedia |-> FALSE, payload |-> <<>>] }

TelFrames ==
  {TelGarbage, TelStop, TelConnected} \cup TelStartFrames \cup TelMediaFrames

\* Messages arriving on an agent connection.
AudioMsg(a, b) == [parses |-> TRUE, type |-> "audio", chunk |-> a, audio_base_64 |-> b]

AgentGarbage == [parses |-> FALSE, type |-> Null]

AgentAudioMsgs ==
  { AudioMsg("p1", Null), AudioMsg(Null, "p2"), AudioMsg("p1", "p2"),
    AudioMsg(Empty, "p2"), AudioMsg(Null, Null) }

AgentPingMsgs ==
  { [parses |-> TRUE, type |-> "ping", event_id |-> e] : e \in {"e1", Null} }

AgentOtherMsgs ==
  { [parses |-> TRUE, type |-> t] :
       t \in {"interruption", "agent_response", "client_tool_call"} }

AgentMsgs ==
  {AgentGarbage} \cup AgentAudioMsgs \cup AgentPingMsgs \cup AgentOtherMsgs

NoMsg == [parses |-> FALSE, type |-> "none"]

\* what a close event says of its socket: the code close() had been called
\* with (0 if it had not been called)
CloseOf(sock) == [parses |-> FALSE, type |-> "close", requested |-> sock.closeCode]

(***************************** state ***************************************)
VARIABLES
  streamSid,         \* line 162
  callSid,           \* line 163
  elevenLabsWs,      \* line 164: index into conns of the current handle, 0 = null
  customParameters,  \* line 165
  isCallActive,      \* line 167
  wsState,           \* ws.readyState of the telephony socket
  conns,             \* the agent sockets created so far, in creation order
  pendingSetups,     \* runs of setupElevenLabs awaiting getSignedUrl()
  reconnectTimers,   \* pending setTimeout(setupElevenLabs, 3000)
  graceTimers,       \* pending setTimeout(() => ws.close(), 2000)
  crashed,           \* an exception escaped an event handler
  wsSent,            \* output: frames the latest handler handed to ws.send()
  agentSent,         \* output: messages the latest handler sent to the agent
  last,              \* the event the latest handler handled
  startSeen,         \* history: a start event has set a stream id
  stopSeen,          \* history: a telephony stop event has been handled
  deactivated        \* history: isCallActive has gone from true to false

vars ==
  << streamSid, callSid, elevenLabsWs, customParameters, isCallActive, wsState,
     conns, pendingSetups, reconnectTimers, graceTimers, crashed, wsSent,
     agentSent, last, startSeen, stopSeen, deactivated >>

sessionVars == << streamSid, callSid, customParameters, isCallActive >>
histVars == << startSeen, stopSeen, deactivated >>

Event(op, c, code, msg) == [op |-> op, c |-> c, code |-> code, msg |-> msg]

\* lines 158-170 and 337: the closure's variables, and the first run of
\* setupElevenLabs already suspended at `await getSignedUrl()`
Init ==
  /\ streamSid = Null
  /\ callSid = Null
  /\ elevenLabsWs = 0
  /\ customParameters = NoParams
  /\ isCallActive = FALSE
  /\ wsState = "OPEN"
  /\ conns = <<>>
  /\ pendingSetups = 1
  /\ reconnectTimers = 0
  /\ graceTimers = 0
  /\ crashed = FALSE
  /\ wsSent = <<>>
  /\ agentSent = <<>>
  /\ last = Event("init", 0, 0, NoMsg)
  /\ startSeen = FALSE
  /\ stopSeen = FALSE
  /\ deactivated = FALSE

(***************************** sockets *************************************)
\* closeCode: the code close() was called with, 0 while it was not called.
\* A closed socket emits no further event and only its readyState is read.
NewSocket == [state |-> "CONNECTING", errored |-> FALSE, closeCode |-> 0]
ClosedSocket == [state |-> "CLOSED", errored |-> FALSE, closeCode |-> 0]

Live(c) == conns[c].state \in {"CONNECTING", "OPEN"}
LiveConns == { c \in 1..Len(conns) : Live(c) }

\* socket.send(m) of `ws` on agent socket h: throws on a null handle or a
\* CONNECTING socket, transmits on an OPEN one, is dropped on a CLOSING or
\* CLOSED one
SendThrows(cs, h) == h = 0 \/ cs[h].state = "CONNECTING"
AgentSend(cs, h, m) ==
  IF h # 0 /\ cs[h].state = "OPEN" THEN << [c |-> h, msg |-> m] >> ELSE <<>>

\* elevenLabsWs?.readyState === WebSocket.OPEN
HandleOpen == elevenLabsWs # 0 /\ conns[elevenLabsWs].state = "OPEN"

\* elevenLabsWs.close(1000, reason) on an OPEN socket
CloseHandle(cs, h) == [cs EXCEPT ![h].state = "CLOSING", ![h].closeCode = NORMAL_CLOSURE]

(***************************** frames out **********************************)
MediaFrame(sid, payload) == [event |-> "media", streamSid |-> sid, payload |-> payload]
ClearFrame(sid) == [event |-> "clear", streamSid |-> sid]
StopFrame(sid) == [event |-> "stop", streamSid |-> sid]
PongMessage(id) == [type |-> "pong", event_id |-> id]

IsMedia(f) == f.event = "media"
MediaCount(s) == Len(SelectSeq(s, IsMedia))
IsStop(f) == f.event = "stop"
StopCount(s) == Len(SelectSeq(s, IsStop))

\* the "audio" case without its stream id test
AudioFramesNoSidTest(sid, m) ==
  IF Truthy(m.chunk) THEN << MediaFrame(sid, m.chunk) >>
  ELSE IF Truthy(m.audio_base_64) THEN << MediaFrame(sid, m.audio_base_64) >>
  ELSE <<>>

\* the "audio" case with `if` in place of `else if`: one frame per shape
AudioFramesBothShapes(sid, m) ==
  IF Truthy(sid)
    THEN (IF Truthy(m.chunk) THEN << MediaFrame(sid, m.chunk) >> ELSE <<>>)
         \o (IF Truthy(m.audio_base_64)
               THEN << MediaFrame(sid, m.audio_base_64) >> ELSE <<>>)
    ELSE <<>>

\* lines 219-245: the frames the "audio" case hands to ws.send
AudioFrames(sid, m) ==
  IF Truthy(sid)
    THEN IF Truthy(m.chunk) THEN << MediaFrame(sid, m.chunk) >>
         ELSE IF Truthy(m.audio_base_64) THEN << MediaFrame(sid, m.audio_base_64) >>
         ELSE <<>>
    ELSE <<>>

\* lines 247-256: the frames the "interruption" case hands to ws.send
InterruptionFrames(sid) == IF Truthy(sid) THEN << ClearFrame(sid) >> ELSE <<>>

\* line 303: the close handler ends the call
EndsCall(active, sid) == active /\ Truthy(sid)

\* the reconnect decision without its close code test
ShouldReconnectAnyCode(code, active) == active

\* the reconnect decision without its active flag test
ShouldReconnectWhenInactive(code, active) == code # NORMAL_CLOSURE

\* line 324: the close handler's reconnect decision, on the flag as it is
\* after the teardown branch
ShouldReconnect(code, active) == code # NORMAL_CLOSURE /\ active

\* the error handler arming its timer only for an active session
ErrorReconnectsWhenActive(active) == active

\* line 296: the error handler's reconnect decision
ErrorReconnects(active) == TRUE

\* lines 173-175: setupElevenLabs starts by fetching a signed URL, whatever
\* the session's state
SetupRuns(active) == TRUE

(***************************** setup ***************************************)
\* lines 175-176: getSignedUrl() resolves and the socket is created
FetchOk ==
  /\ ~crashed
  /\ pendingSetups > 0
  /\ Len(conns) < MaxConns
  /\ pendingSetups' = pendingSetups - 1
  /\ conns' = Append(conns, NewSocket)
  /\ elevenLabsWs' = Len(conns) + 1
  /\ wsSent' = <<>>
  /\ agentSent' = <<>>
  /\ last' = Event("FetchOk", Len(conns) + 1, 0, NoMsg)
  /\ UNCHANGED << sessionVars, wsState, reconnectTimers, graceTimers, crashed,
                  histVars >>

\* lines 59-68, 331-333: getSignedUrl() (or new WebSocket) throws; the catch
\* block logs and the run ends
FetchFail ==
  /\ ~crashed
  /\ pendingSetups > 0
  /\ pendingSetups' = pendingSetups - 1
  /\ wsSent' = <<>>
  /\ agentSent' = <<>>
  /\ last' = Event("FetchFail", 0, 0, NoMsg)
  /\ UNCHANGED << sessionVars, elevenLabsWs, wsState, conns, reconnectTimers,
                  graceTimers, crashed, histVars >>

\* lines 296, 326: a reconnection timer fires and calls setupElevenLabs
ReconnectTimerFire ==
  /\ ~crashed
  /\ reconnectTimers > 0
  /\ reconnectTimers' = reconnectTimers - 1
  /\ pendingSetups' = IF SetupRuns(isCallActive) THEN pendingSetups + 1 ELSE pendingSetups
  /\ wsSent' = <<>>
  /\ agentSent' = <<>>
  /\ last' = Event("ReconnectTimerFire", 0, 0, NoMsg)
  /\ UNCHANGED << sessionVars, elevenLabsWs, wsState, conns, graceTimers,
                  crashed, histVars >>

\* the grace timer's callback without its close
GraceCloseNever(state) == state

\* lines 317-319: ws.close() if the telephony socket is open
GraceClose(state) == IF state = "OPEN" THEN "CLOSING" ELSE state

\* lines 316-320: the grace timer fires
GraceTimerFire ==
  /\ ~crashed
  /\ graceTimers > 0
  /\ graceTimers' = graceTimers - 1
  /\ wsState' = GraceClose(wsState)
  /\ wsSent' = <<>>
  /\ agentSent' = <<>>
  /\ last' = Event("GraceTimerFire", 0, 0, NoMsg)
  /\ UNCHANGED << sessionVars, elevenLabsWs, conns, pendingSetups,
                  reconnectTimers, crashed, histVars >>

(***************************** agent leg ***********************************)
\* lines 178-199: the socket opens; the handler sends the initial
\* configuration on the session's current handle.  The handler has no
\* try/catch, so a throwing send escapes it.
AgentOpen(c) ==
  /\ ~crashed
  /\ c \in 1..Len(conns)
  /\ conns[c].state = "CONNECTING"
  /\ LET opened == [conns EXCEPT ![c].state = "OPEN"]
         out == IF SendThrows(opened, elevenLabsWs) THEN <<>>
                ELSE AgentSend(opened, elevenLabsWs,
                               InitialConfig(customParameters, callSid))
     IN /\ crashed' = SendThrows(opened, elevenLabsWs)
        /\ agentSent' = out
        /\ conns' = opened
  /\ wsSent' = <<>>
  /\ last' = Event("AgentOpen", c, 0, NoMsg)
  /\ UNCHANGED << sessionVars, elevenLabsWs, wsState, pendingSetups,
                  reconnectTimers, graceTimers, startSeen, stopSeen, deactivated >>

\* lines 258-267: the "ping" case; the send is on the current handle and a
\* throw is caught at line 288
PingReply(cs, h, m) ==
  IF Truthy(m.event_id) /\ ~SendThrows(cs, h)
    THEN AgentSend(cs, h, PongMessage(m.event_id))
    ELSE <<>>

\* lines 214-285: the frames the message handler hands to ws.send
MessageFrames(sid, m) ==
  IF ~m.parses THEN <<>>
  ELSE IF m.type = "audio" THEN AudioFrames(sid, m)
  ELSE IF m.type = "interruption" THEN InterruptionFrames(sid)
  ELSE <<>>

\* lines 201-291: a message arrives on agent socket c (a socket that was
\* asked to close still delivers what the peer sent before its close frame)
AgentMessage(c, m) ==
  /\ ~crashed
  /\ c \in 1..Len(conns)
  /\ \/ conns[c].state = "OPEN"
     \/ conns[c].state = "CLOSING" /\ ~conns[c].errored
  /\ wsSent' = MessageFrames(streamSid, m)
  /\ agentSent' = IF m.parses /\ m.type = "ping"
                    THEN PingReply(conns, elevenLabsWs, m) ELSE <<>>
  /\ last' = Event("AgentMessage", c, 0, m)
  /\ UNCHANGED << sessionVars, elevenLabsWs, wsState, conns, pendingSetups,
                  reconnectTimers, graceTimers, crashed, histVars >>

\* lines 293-297: the socket reports an error (it is then on its way to
\* closed); a reconnection timer is armed
AgentError(c) ==
  /\ ~crashed
  /\ c \in 1..Len(conns)
  /\ conns[c].state # "CLOSED"
  /\ ~conns[c].errored
  /\ conns' = [conns EXCEPT ![c].state = "CLOSING", ![c].errored = TRUE]
  /\ reconnectTimers' =
       IF ErrorReconnects(isCallActive) THEN reconnectTimers + 1 ELSE reconnectTimers
  /\ wsSent' = <<>>
  /\ agentSent' = <<>>
  /\ last' = Event("AgentError", c, 0, NoMsg)
  /\ UNCHANGED << sessionVars, elevenLabsWs, wsState, pendingSetups,
                  graceTimers, crashed, histVars >>

\* the codes a close event of socket c can carry: a socket that failed has
\* no close frame (1006); otherwise the peer's code, or 1006 on a drop
CloseCodes(c) ==
  IF conns[c].errored THEN {ABNORMAL_CLOSURE} ELSE {NORMAL_CLOSURE, ABNORMAL_CLOSURE}

\* lines 299-330: the socket closes
AgentClose(c, code) ==
  /\ ~crashed
  /\ c \in 1..Len(conns)
  /\ conns[c].state \in {"OPEN", "CLOSING"}
  /\ code \in CloseCodes(c)
  /\ conns' = [conns EXCEPT ![c] = ClosedSocket]
  /\ IF EndsCall(isCallActive, streamSid)
       THEN /\ wsSent' = << StopFrame(streamSid) >>
            /\ isCallActive' = FALSE
            /\ graceTimers' = graceTimers + 1
       ELSE /\ wsSent' = <<>>
            /\ UNCHANGED << isCallActive, graceTimers >>
  /\ reconnectTimers' =
       IF ShouldReconnect(code, isCallActive') THEN reconnectTimers + 1
       ELSE reconnectTimers
  /\ agentSent' = <<>>
  /\ deactivated' = (deactivated \/ (isCallActive /\ ~isCallActive'))
  /\ last' = Event("AgentClose", c, code, CloseOf(conns[c]))
  /\ UNCHANGED << streamSid, callSid, customParameters, elevenLabsWs, wsState,
                  pendingSetups, crashed, startSeen, stopSeen >>

(***************************** telephony leg *******************************)
\* lines 380-383 and 399-401: close the agent socket if the current handle
\* is open
StopAgent == IF HandleOpen THEN CloseHandle(conns, elevenLabsWs) ELSE conns

\* lines 348-357: "start"; without a start object line 349 throws before
\* anything is assigned
TelStartEvent(m) ==
  /\ IF m.hasStart
       THEN /\ streamSid' = m.streamSid
            /\ callSid' = m.callSid
            /\ customParameters' = m.customParameters
            /\ isCallActive' = TRUE
            /\ startSeen' = (startSeen \/ Truthy(m.streamSid))
       ELSE UNCHANGED << sessionVars, startSeen >>
  /\ agentSent' = <<>>
  /\ UNCHANGED << conns, stopSeen, deactivated >>

\* lines 359-374: "media"; without a media object line 364 throws
TelMediaEvent(m) ==
  /\ agentSent' = IF HandleOpen /\ m.hasMedia
                    THEN AgentSend(conns, elevenLabsWs, AudioMessage(m.payload))
                    ELSE <<>>
  /\ UNCHANGED << sessionVars, conns, histVars >>

\* lines 376-384: "stop"
TelStopEvent ==
  /\ isCallActive' = FALSE
  /\ conns' = StopAgent
  /\ agentSent' = <<>>
  /\ stopSeen' = TRUE
  /\ deactivated' = (deactivated \/ isCallActive)
  /\ UNCHANGED << streamSid, callSid, customParameters, startSeen >>

\* lines 340-392: a frame arrives on the telephony socket
TelMessage(m) ==
  /\ ~crashed
  /\ wsState # "CLOSED"
  /\ IF m.parses /\ m.event = "start" THEN TelStartEvent(m)
     ELSE IF m.parses /\ m.event = "media" THEN TelMediaEvent(m)
     ELSE IF m.parses /\ m.event = "stop" THEN TelStopEvent
     ELSE /\ agentSent' = <<>>
          /\ UNCHANGED << sessionVars, conns, histVars >>
  /\ wsSent' = <<>>
  /\ last' = Event("TelMessage", 0, 0, m)
  /\ UNCHANGED << elevenLabsWs, wsState, pendingSetups, reconnectTimers,
                  graceTimers, crashed >>

\* lines 395-402: the telephony socket closes
TelClose ==
  /\ ~crashed
  /\ wsState # "CLOSED"
  /\ wsState' = "CLOSED"
  /\ isCallActive' = FALSE
  /\ conns' = StopAgent
  /\ wsSent' = <<>>
  /\ agentSent' = <<>>
  /\ deactivated' = (deactivated \/ isCallActive)
  /\ last' = Event("TelClose", 0, 0, NoMsg)
  /\ UNCHANGED << streamSid, callSid, customParameters, elevenLabsWs,
                  pendingSetups, reconnectTimers, graceTimers, crashed,
                  startSeen, stopSeen >>

(***************************** specification *******************************)
Next ==
  \/ FetchOk
  \/ FetchFail
  \/ ReconnectTimerFire
  \/ GraceTimerFire
  \/ \E c \in 1..MaxConns : AgentOpen(c)
  \/ \E c \in 1..MaxConns, m \in AgentMsgs : AgentMessage(c, m)
  \/ \E c \in 1..MaxConns : AgentError(c)
  \/ \E c \in 1..MaxConns, code \in {NORMAL_CLOSURE, ABNORMAL_CLOSURE} : AgentClose(c, code)
  \/ \E m \in TelFrames : TelMessage(m)
  \/ TelClose

Spec == Init /\ [][Next]_vars

\* What the runtime and the `ws` package guarantee: a timer that was set
\* fires, a fetch resolves or fails, a connecting socket opens or fails, and
\* a socket on its way to closed (closing handshake, or after an error)
\* emits its close event.  Nothing makes a peer send or close.
Fairness ==
  /\ WF_vars(ReconnectTimerFire)
  /\ WF_vars(GraceTimerFire)
  /\ WF_vars(FetchOk \/ FetchFail)
  /\ WF_vars(\E c \in 1..MaxConns :
               /\ c <= Len(conns)
               /\ conns[c].state = "CONNECTING"
               /\ (AgentOpen(c) \/ AgentError(c)))
  /\ WF_vars(\E c \in 1..MaxConns, code \in {NORMAL_CLOSURE, ABNORMAL_CLOSURE} :
               /\ c <= Len(conns)
               /\ conns[c].state = "CLOSING"
               /\ AgentClose(c, code))
  /\ WF_vars(wsState = "CLOSING" /\ TelClose)

FairSpec == Spec /\ Fairness

TypeOK ==
  /\ streamSid \in StreamSids \cup {Null}
  /\ callSid \in CallSids \cup {Null}
  /\ elevenLabsWs \in 0..Len(conns)
  /\ customParameters \in ParamSets
  /\ isCallActive \in BOOLEAN
  /\ wsState \in {"OPEN", "CLOSING", "CLOSED"}
  /\ Len(wsSent) <= 1
  /\ Len(agentSent) <= 1
  /\ Len(conns) <= MaxConns
  /\ pendingSetups \in Nat /\ reconnectTimers \in Nat /\ graceTimers \in Nat

(***************************** properties *******************************)
IsAudio(e) == e.op = "AgentMessage" /\ e.msg.parses /\ e.msg.type = "audio"
HasPayload(m) == Truthy(m.chunk) \/ Truthy(m.audio_base_64)
Payloads(m) == { v \in {m.chunk, m.audio_base_64} : Truthy(v) }

\* C1: no media frame is handed to the telephony socket unless a start
\* event has set the stream id before; an agent audio message handled while
\* the stream id is unset sends nothing, and a media frame only ever leaves
\* the handler of the audio message whose payload it carries (nothing is
\* queued and delivered later).
C1_NoMediaBeforeStart ==
  [][ /\ (MediaCount(wsSent') > 0 => startSeen')
      /\ (IsAudio(last') /\ ~Truthy(streamSid) => wsSent' = <<>>)
      /\ (MediaCount(wsSent') > 0 =>
            /\ IsAudio(last')
            /\ \A i \in 1..Len(wsSent') : wsSent'[i].payload \in Payloads(last'.msg))
    ]_vars

C1_Witness ==
  /\ IsAudio(last)
  /\ HasPayload(last.msg)
  /\ streamSid = Null
  /\ wsSent = <<>>

\* the dynamic variables the documentation asks for: the start event's value
\* where present, the documented default where absent
DocumentedVariables(cp, cs) ==
  [client_id |-> IF Truthy(cp.client_id) THEN cp.client_id
                 ELSE IF Truthy(cs) THEN cs ELSE "unknown_call",
   phone_number |-> IF Truthy(cp.phone_number) THEN cp.phone_number ELSE "unknown_number",
   name |-> IF Truthy(cp.name) THEN cp.name ELSE "Cliente",
   organization |-> IF Truthy(cp.organization) THEN cp.organization ELSE "Datágora",
   credit_amount |-> IF Truthy(cp.credit_amount) THEN cp.credit_amount ELSE "50000"]

HasType(o, t) == "type" \in DOMAIN o.msg /\ o.msg.type = t
IsInit(o) == HasType(o, "conversation_initiation_client_data")
IsStart(e) == e.op = "TelMessage" /\ e.msg.parses /\ e.msg.event = "start"

\* C2: the initialization message sent to the agent carries the values of
\* the session's start event (and the documented defaults), whatever the
\* order of the open and the start: in particular when the start event
\* (with a stream id and customParameters) is handled right after the
\* handler that sent the initialization message.
C2_InitCarriesStartParameters ==
  [][ /\ IsStart(last')
      /\ Truthy(streamSid') /\ customParameters'.defined
      /\ agentSent # <<>> /\ IsInit(agentSent[1])
      => agentSent[1].msg.dynamic_variables
           = DocumentedVariables(customParameters', callSid')
    ]_vars

\* C3: once the active flag of a session (whose stream id is known) has gone
\* from true to false, and while it is false, no run of agent setup begins: a
\* reconnection timer that fires then fetches no URL, so that no run of
\* setupElevenLabs is added to those awaiting getSignedUrl.
C3_NoSetupAfterDeactivation ==
  [][ deactivated /\ ~isCallActive /\ Truthy(streamSid) =>
        pendingSetups' <= pendingSetups
    ]_vars

\* C4: an agent close event with a code other than 1000, handled while the
\* session is active, arms a reconnection timer.
C4_AbnormalCloseReconnects ==
  [][ last'.op = "AgentClose" /\ last'.code # NORMAL_CLOSURE /\ isCallActive =>
        reconnectTimers' = reconnectTimers + 1
    ]_vars

\* C5: an agent close event with code 1000, handled while the session is
\* active, arms no reconnection timer and starts no setup run; if the stream
\* id is known it hands exactly one stop frame for that stream id to the
\* telephony socket and the active flag becomes false.
C5_NormalCloseEndsCall ==
  [][ last'.op = "AgentClose" /\ last'.code = NORMAL_CLOSURE /\ isCallActive =>
        /\ reconnectTimers' = reconnectTimers
        /\ pendingSetups' = pendingSetups
        /\ (Truthy(streamSid) =>
              /\ wsSent' = << StopFrame(streamSid) >>
              /\ ~isCallActive')
    ]_vars

C5_Witness ==
  /\ last.op = "AgentClose"
  /\ last.code = NORMAL_CLOSURE
  /\ Truthy(streamSid)
  /\ wsSent = << StopFrame(streamSid) >>
  /\ ~isCallActive
  /\ deactivated
  /\ reconnectTimers = 0

\* C6: a session has at most one connecting or open agent connection.
C6_AtMostOneLiveConnection == Cardinality(LiveConns) <= 1

\* C7: at most one setup run or reconnection timer is pending for a session.
C7_AtMostOnePendingReconnect == pendingSetups + reconnectTimers <= 1

\* C8: after a telephony stop event has been handled (and with the session
\* still inactive: no later start event has begun a new stream), no media
\* frame is handed to the telephony socket.
C8_NoMediaAfterStop == stopSeen /\ ~isCallActive => MediaCount(wsSent) = 0

IsTelStop(e) == e.op = "TelMessage" /\ e.msg.parses /\ e.msg.event = "stop"

\* C9 as stated: a telephony stop or close clears the active flag and asks an
\* open agent connection to close with code 1000, and the close event of a
\* connection so asked sends no stop frame and arms no reconnection timer.
C9_AsStated ==
  [][ /\ (IsTelStop(last') \/ last'.op = "TelClose" =>
            /\ ~isCallActive'
            /\ (HandleOpen =>
                  /\ conns'[elevenLabsWs].state = "CLOSING"
                  /\ conns'[elevenLabsWs].closeCode = NORMAL_CLOSURE))
      /\ (last'.op = "AgentClose" /\ conns[last'.c].closeCode = NORMAL_CLOSURE =>
            /\ StopCount(wsSent') = 0
            /\ reconnectTimers' = reconnectTimers)
    ]_vars

\* C9 (amended): as above, for a close event handled while the session is
\* still inactive, that is, unless a later start event has set the active
\* flag again in between.
C9_StopClosesAgentQuietly ==
  [][ /\ (IsTelStop(last') \/ last'.op = "TelClose" =>
            /\ ~isCallActive'
            /\ (HandleOpen =>
                  /\ conns'[elevenLabsWs].state = "CLOSING"
                  /\ conns'[elevenLabsWs].closeCode = NORMAL_CLOSURE))
      /\ ((/\ last'.op = "AgentClose"
           /\ conns[last'.c].closeCode = NORMAL_CLOSURE
           /\ ~isCallActive) =>
            /\ StopCount(wsSent') = 0
            /\ reconnectTimers' = reconnectTimers)
    ]_vars

C9_Witness ==
  /\ last.op = "AgentClose"
  /\ last.code = ABNORMAL_CLOSURE
  /\ last.msg.requested = NORMAL_CLOSURE
  /\ stopSeen
  /\ ~isCallActive
  /\ Truthy(streamSid)
  /\ wsSent = <<>>
  /\ reconnectTimers = 0

\* C10: an agent audio message handled while the stream id is known, with a
\* payload in either shape, hands exactly one media frame to the telephony
\* socket, addressed to the session's stream id and carrying the received
\* payload unchanged; with both shapes present still exactly one frame.
C10_AudioForwardedOnce ==
  [][ IsAudio(last') /\ Truthy(streamSid) /\ HasPayload(last'.msg) =>
        /\ Len(wsSent') = 1
        /\ wsSent'[1].event = "media"
        /\ wsSent'[1].streamSid = streamSid
        /\ wsSent'[1].payload \in Payloads(last'.msg)
    ]_vars

C10_Witness ==
  /\ IsAudio(last)
  /\ Truthy(last.msg.chunk) /\ Truthy(last.msg.audio_base_64)
  /\ Truthy(streamSid)
  /\ wsSent = << MediaFrame(streamSid, last.msg.chunk) >>

IsPing(e) == e.op = "AgentMessage" /\ e.msg.parses /\ e.msg.type = "ping"
IsPong(o) == HasType(o, "pong")
PongCount(s) == Len(SelectSeq(s, IsPong))

\* C11: an agent ping message carrying an event identifier, delivered by an
\* open agent connection, makes its handler send exactly one message to the
\* agent, the pong echoing that identifier; a ping without an identifier,
\* and every other event, sends no pong.
C11_PingAnsweredOnce ==
  [][ /\ (IsPing(last') /\ Truthy(last'.msg.event_id)
             /\ conns[last'.c].state = "OPEN" =>
            /\ Len(agentSent') = 1
            /\ agentSent'[1].msg = PongMessage(last'.msg.event_id))
      /\ (~(IsPing(last') /\ Truthy(last'.msg.event_id)) =>
            PongCount(agentSent') = 0)
    ]_vars

\* C12: the stream id is set at most once in a session: once a start event
\* has set it, no later event, a second start event included, changes it.
C12_StreamSidSetOnce ==
  [][ Truthy(streamSid) => streamSid' = streamSid ]_vars

\* C13: every error event of an agent connection arms exactly one
\* reconnection timer, whether the session's active flag is true or false,
\* and a reconnection timer that fires starts one run of agent setup.
C13_ErrorAlwaysReconnects ==
  [][ /\ (last'.op = "AgentError" => reconnectTimers' = reconnectTimers + 1)
      /\ (last'.op = "ReconnectTimerFire" =>
            /\ reconnectTimers' = reconnectTimers - 1
            /\ pendingSetups' = pendingSetups + 1)
    ]_vars

C13_Witness ==
  /\ last.op = "AgentError"
  /\ deactivated
  /\ ~isCallActive
  /\ reconnectTimers = 1

\* C14: when a run of agent setup fails (getSignedUrl or the socket
\* constructor throws) while the session is active, a re-run of setup is
\* scheduled: a reconnection timer is armed.
C14_FetchFailureReconnects ==
  [][ last'.op = "FetchFail" /\ isCallActive /\ Truthy(streamSid) =>
        reconnectTimers' = reconnectTimers + 1
    ]_vars

IsTelMedia(e) ==
  e.op = "TelMessage" /\ e.msg.parses /\ e.msg.event = "media" /\ e.msg.hasMedia
IsChunk(o) == "user_audio_chunk" \in DOMAIN o.msg
ChunkCount(s) == Len(SelectSeq(s, IsChunk))
Canonical(b64) == Base64Encode(Base64Decode(b64)) = b64

\* C15 as stated: a telephony media frame handled while the session's agent
\* connection is open sends exactly one user_audio_chunk message carrying
\* the frame's payload unchanged; handled in any other state of the
\* connection it sends nothing, and no user_audio_chunk message leaves any
\* other handler (nothing is buffered and delivered later).
C15_AsStated ==
  [][ /\ (IsTelMedia(last') /\ HandleOpen =>
            agentSent' = << [c |-> elevenLabsWs,
                             msg |-> [user_audio_chunk |-> last'.msg.payload]] >>)
      /\ (IsTelMedia(last') /\ ~HandleOpen => agentSent' = <<>>)
      /\ (ChunkCount(agentSent') > 0 => IsTelMedia(last'))
    ]_vars

\* C15 (amended): as above, but the message carries the frame's audio bytes
\* in canonical base64: the payload decoded and encoded again, which is the
\* payload string itself only when that string is canonical base64.
C15_MediaForwardedIffOpen ==
  [][ /\ (IsTelMedia(last') /\ HandleOpen =>
            /\ Len(agentSent') = 1
            /\ agentSent'[1].c = elevenLabsWs
            /\ DOMAIN agentSent'[1].msg = {"user_audio_chunk"}
            /\ LET sent == agentSent'[1].msg.user_audio_chunk
               IN /\ Base64Decode(sent) = Base64Decode(last'.msg.payload)
                  /\ Canonical(sent)
                  /\ (Canonical(last'.msg.payload) => sent = last'.msg.payload))
      /\ (IsTelMedia(last') /\ ~HandleOpen => agentSent' = <<>>)
      /\ (ChunkCount(agentSent') > 0 => IsTelMedia(last'))
    ]_vars

C15_Witness ==
  /\ IsTelMedia(last)
  /\ ~Canonical(last.msg.payload)
  /\ HandleOpen
  /\ Len(agentSent) = 1
  /\ agentSent[1].msg.user_audio_chunk # last.msg.payload
  /\ Base64Decode(agentSent[1].msg.user_audio_chunk) = Base64Decode(last.msg.payload)

InitCount(s) == Len(SelectSeq(s, IsInit))

\* C16: the open handler of an agent connection sends the initialization
\* message on that connection, exactly once, and no other handler sends one;
\* so that the initialization message is the first message the connection
\* carries and it carries it once.
C16_InitFirstAndOnce ==
  [][ /\ (last'.op = "AgentOpen" =>
            /\ Len(agentSent') = 1
            /\ IsInit(agentSent'[1])
            /\ agentSent'[1].c = last'.c)
      /\ (InitCount(agentSent') > 0 => last'.op = "AgentOpen")
    ]_vars

\* C17: the close event of an agent connection, handled while the session
\* is active and the stream id known, hands one stop frame to the telephony
\* socket in the step that clears the active flag and arms the grace timer;
\* the grace timer, when it fires, closes the telephony socket if it is open
\* and leaves it alone otherwise; so that the telephony connection is
\* eventually closed (unless an exception has ended the process before).
C17_StopThenGraceClose ==
  /\ [][ /\ (last'.op = "AgentClose" /\ isCallActive /\ Truthy(streamSid) =>
                /\ wsSent' = << StopFrame(streamSid) >>
                /\ ~isCallActive'
                /\ graceTimers' = graceTimers + 1)
          /\ (last'.op = "GraceTimerFire" =>
                /\ graceTimers' = graceTimers - 1
                /\ (wsState = "OPEN" => wsState' = "CLOSING")
                /\ (wsState # "OPEN" => wsState' = wsState))
        ]_vars
  /\ (graceTimers > 0 ~> (wsState = "CLOSED" \/ crashed))

C17_Witness ==
  /\ last.op = "GraceTimerFire"
  /\ wsState = "CLOSING"
  /\ graceTimers = 0
  /\ ~isCallActive
  /\ Truthy(streamSid)

\* a telephony frame that is not a well-formed start, media or stop frame
TelMalformed(m) ==
  \/ ~m.parses
  \/ m.event \notin {"start", "media", "stop"}
  \/ m.event = "start" /\ (~m.hasStart \/ ~Truthy(m.streamSid))
  \/ m.event = "media" /\ ~m.hasMedia

\* an agent message that does not parse or whose type no case handles
AgentMalformed(m) ==
  \/ ~m.parses
  \/ m.type \notin {"audio", "interruption", "ping", "agent_response"}

\* C18: a frame that is malformed (it does not parse, or it is a start or
\* media frame without its expected structure) or of a type no case handles,
\* on either leg, is discarded alone: the stream id, the call id, the custom
\* parameters, the active flag, the agent handle and both legs' sockets are
\* as before, and nothing is sent to either leg.
C18_MalformedFrameDiscarded ==
  [][ \/ last'.op = "TelMessage" /\ TelMalformed(last'.msg)
      \/ last'.op = "AgentMessage" /\ AgentMalformed(last'.msg)
      => /\ UNCHANGED << sessionVars, elevenLabsWs, conns, wsState >>
         /\ wsSent' = <<>>
         /\ agentSent' = <<>>
    ]_vars

\* C19: once the telephony connection of a session has closed, no agent
\* connection is created for it any more, also when a run of agent setup
\* was pending or a reconnection timer outstanding at the time of the close.
C19_NoAgentAfterTelephonyClose ==
  [][ wsState = "CLOSED" => Len(conns') = Len(conns) ]_vars

\* C20: a pong is sent on the agent connection that delivered the ping it
\* answers, also when setup has replaced the session's handle since that
\* connection was created: never on a newer connection.
C20_PongOnPingConnection ==
  [][ \A i \in 1..Len(agentSent') :
        IsPong(agentSent'[i]) => IsPing(last') /\ agentSent'[i].c = last'.c
    ]_vars

====
